---- MODULE Spec2Model ----
(***************************************************************************)
(* Gateway admission and lifecycle control of corehttp:                    *)
(*   - DedicatedGatewayMiddleware with checkDmca and                       *)
(*     getDedicatedGatewayAccess  (specification Spec),                    *)
(*   - getLimiter and the limiter's Allow under concurrent callers         *)
(*     (specification SpecLimiter),                                        *)
(*   - Serve and its shutdown protocol (specification SpecServe).          *)
(*                                                                         *)
(* Encodings.                                                              *)
(*   A URL path is the sequence of its pieces between "/" characters:      *)
(*   "/ipfs/bafyA/extra" is <<"", "ipfs", "bafyA", "extra">> and "/ipfs/"  *)
(*   is <<"", "ipfs", "">>.                                                *)
(*   A *rate.Limiter is a heap cell: the maps hold the cell's id, a caller *)
(*   holds the id it was returned, and heap[id] is the limiter's bucket.   *)
(*   Time advances in whole refill intervals (rate.Every(time.Minute)):    *)
(*   one Tick adds one token to every bucket, up to its burst.             *)
(***************************************************************************)
EXTENDS Integers, Sequences, FiniteSets, TLC

(***************************************************************************)
(* Program constants                                                       *)
(***************************************************************************)
IpBurst == 100
CidBurst == 15
StatusOK == 200
StatusGone == 410
StatusBadRequest == 400
StatusTooManyRequests == 429
StatusInternalServerError == 500

None == "none"
\* nil or unset values of the handler's variables
NoRequest == [RemoteAddr |-> "", Path |-> <<>>]
NoCid == [version |-> -1, codec |-> "", hash |-> ""]
NoLimiter == <<"", "", 0>>
NoResponse == [code |-> 0, body |-> ""]
NoHandler == [top |-> -1, mux |-> -1, err |-> None, calls |-> <<>>]
NoDispatch == [method |-> "", admitted |-> FALSE, code |-> 0, mux |-> -1]

(***************************************************************************)
(* Inputs                                                                  *)
(***************************************************************************)
\* r.RemoteAddr of the requests (host:port of the connection)
Addrs == {"10.0.0.1:5001"}

\* r.URL.Path of the requests, as "/"-separated pieces
PathIpfsOnly      == <<"", "ipfs">>
PathEmptyToken    == <<"", "ipfs", "">>
PathBadHash       == <<"", "ipfs", "notacid">>
PathCid           == <<"", "ipfs", "bafyA">>
PathCidExtra      == <<"", "ipfs", "bafyA", "extra">>
PathDoubleSlash   == <<"", "ipfs", "", "ipfs", "bafyA">>
PathApi           == <<"", "api", "v0", "id">>
Paths == {PathIpfsOnly, PathEmptyToken, PathBadHash, PathCid, PathCidExtra,
          PathDoubleSlash, PathApi}

\* What the outbound call of a policy check can come back with: client.Do
\* failed, or the remote's status code.
TransportError == -1
\* 99 is the status line "HTTP/1.1 099 ...", which the client accepts as
\* StatusCode 99
RemoteStatuses == {99, 200, 204, 404, 410, 503}
Remotes == {TransportError} \cup RemoteStatuses
\* resp.Body: the message the remote service sends with a status
RemoteBody(status) ==
    CASE status = 200 -> "ok"
      [] status = 404 -> "no record for this hash"
      [] status = 410 -> "blocked"
      [] status = 503 -> "service unavailable"
      [] OTHER        -> ""
\* http.NewRequest failed: nothing was sent
NoCall == 0

(***************************************************************************)
(* State                                                                   *)
(***************************************************************************)
VARIABLES
    cfg,          \* cfg.ConfigPinningService: DedicatedGateway, and whether
                  \* PinningService makes a URL http.NewRequest accepts
    ipLimiters,   \* var ipLimiters: key -> limiter id
    cidLimiters,  \* var cidLimiters: key -> limiter id
    heap,         \* limiter id -> [burst, tokens]
    allocs,       \* <<pool, key>> -> number of rate.NewLimiter calls made for it
    mtx,          \* var mtx: the set of goroutines holding it, {} when free
    \* the handler invocation under observation (Spec)
    pc,           \* position in the handler
    r,            \* the request: [RemoteAddr, Path]
    matches,      \* result of FindStringSubmatch: None (nil) or matches[1]
    cidv,         \* the parsed cid: NoCid or [version, codec, hash]
    lim,          \* the limiter pointer last returned by getLimiter
    w,            \* the http.Error call the handler made: NoResponse or its
                  \* [code, body] arguments
    forwarded,    \* number of next.ServeHTTP calls for this request
    trace,        \* what the handler called for this request, in order:
                  \* [op, pool, arg, remote, ok]
    \* the goroutines calling getLimiter and Allow (SpecLimiter)
    lpool,        \* the pool they work on: the limitMap and rps arguments
    g,            \* goroutine -> [pc, limit, limiter, exists]: its position
                  \* and getLimiter's parameter and local variables
    fresh,        \* <<pool, key>> -> [calls, grants]: the Allow calls made and
                  \* granted for the key since its limiter was created, while
                  \* no refill interval has passed
    refilled,     \* the <<pool, key>> whose limiter has seen a refill interval
    \* Serve (SpecServe)
    options,      \* the ServeOptions passed to Serve
    spc,          \* position of the goroutine running Serve
    lisOpen,      \* the listener is open
    closing,      \* node.Process.Closing() is closed: the shutdown signal
    loop,         \* the goroutine of server.Serve(lis): "none", "running", "exited"
    procClosed,   \* serverProc.Closed() is closed
    serverError,  \* var serverError
    shutdownBegun,\* server.Shutdown has been called
    shutErr,      \* err of server.Shutdown(ctx)
    inflight,     \* requests being handled
    sinceSignal,  \* time-units since the shutdown signal, -1 before it
    ctxAge,       \* time-units since context.WithTimeout, -1 before it
    warnAge,      \* time-units since warnProc started or last fired, -1 when
                  \* it does not run
    notices,      \* progress notifications logged by warnProc
    retErr,       \* what Serve returned
    loopOwn,      \* the serve loop exited by itself, not because of Shutdown
    sigServing,   \* the shutdown signal arrived while the server was serving
    handler,      \* what MakeHandler returned to Serve: [top, mux, err, calls]
    last,         \* the last request the server handed to its handler:
                  \* [method, admitted, code, mux]
    \* the strings derived from request paths (SpecKeys)
    derived       \* per request handled, in order: [token, cid, limiterKey,
                  \* dmcaArg, accessArg, addr, ipKey, ipLimiter, ipTokens]

limVars == <<ipLimiters, cidLimiters, heap, allocs, mtx>>
reqVars == <<pc, r, matches, cidv, lim, w, forwarded, trace>>
callerVars == <<lpool, g, fresh, refilled>>
serveVars == <<options, spc, lisOpen, closing, loop, procClosed, serverError,
               shutdownBegun, shutErr, inflight, sinceSignal, ctxAge, warnAge,
               notices, retErr, loopOwn, sigServing>>
muxVars == <<handler, last>>
keyVars == <<derived>>
\* what the steps of the middleware's run leave alone
nonReqVars == <<callerVars, serveVars, muxVars, keyVars>>
\* what the steps of the goroutines of SpecLimiter leave alone
nonCallerVars == <<cfg, reqVars, serveVars, muxVars, keyVars>>
\* what the steps of Serve leave alone
nonServeVars == <<cfg, limVars, reqVars, callerVars, keyVars>>
\* what the derivation of the keys leaves alone
vars == <<cfg, limVars, reqVars, callerVars, serveVars, muxVars, keyVars>>

\* an entry of trace; pool is "" and remote NoCall where they do not apply
Event(op, pool, arg, remote, ok) ==
    [op |-> op, pool |-> pool, arg |-> arg, remote |-> remote, ok |-> ok]

\* faulty variant: the prefix tested is "/ipfs", without the closing "/"
HasIpfsPrefix_NoSlash(path) ==
    /\ Len(path) >= 2
    /\ path[1] = ""
    /\ path[2] = "ipfs"

(***************************************************************************)
(* strings.HasPrefix(r.URL.Path, "/ipfs/")                                 *)
(***************************************************************************)
HasIpfsPrefix(path) ==
    /\ Len(path) >= 3
    /\ path[1] = ""
    /\ path[2] = "ipfs"

(***************************************************************************)
(* regexp `/ipfs/([^/]+)`, FindStringSubmatch: the leftmost place where    *)
(* "/ipfs/" is followed by at least one character other than "/".  The     *)
(* pattern is not anchored.  None stands for a nil result, otherwise the   *)
(* value is matches[1].                                                    *)
(***************************************************************************)
MatchPlaces(path) ==
    {i \in 2..(Len(path) - 1) : path[i] = "ipfs" /\ path[i + 1] # ""}

FindStringSubmatch(path) ==
    IF MatchPlaces(path) = {}
    THEN None
    ELSE LET i == CHOOSE j \in MatchPlaces(path) :
                      \A k \in MatchPlaces(path) : j <= k
         IN  path[i + 1]

(***************************************************************************)
(* cid.Parse, Cid.String and Cid.Hash().HexString() of go-cid, on the      *)
(* tokens of the model.  "QmA" is the CIDv0 of multihash A; "bafyA" is the *)
(* CIDv1 (dag-pb, base32) of the same multihash and "zA" the same CIDv1    *)
(* written in base58btc; "QmB", "bafyB" and "zB" are those of multihash B; *)
(* anything else does not parse.                                           *)
(***************************************************************************)
Parse(tok) ==
    CASE tok = "QmA"   -> [version |-> 0, codec |-> "dag-pb", hash |-> "A"]
      [] tok = "bafyA" -> [version |-> 1, codec |-> "dag-pb", hash |-> "A"]
      [] tok = "zA"    -> [version |-> 1, codec |-> "dag-pb", hash |-> "A"]
      [] tok = "QmB"   -> [version |-> 0, codec |-> "dag-pb", hash |-> "B"]
      [] tok = "bafyB" -> [version |-> 1, codec |-> "dag-pb", hash |-> "B"]
      [] tok = "zB"    -> [version |-> 1, codec |-> "dag-pb", hash |-> "B"]
      [] OTHER         -> NoCid

\* Cid.String(): base58btc for version 0, base32 for version 1
CidString(c) ==
    IF c.version = 0
    THEN (CASE c.hash = "A" -> "QmA" [] c.hash = "B" -> "QmB" [] OTHER -> "Qm?")
    ELSE (CASE c.hash = "A" -> "bafyA" [] c.hash = "B" -> "bafyB" [] OTHER -> "bafy?")

\* Cid.Hash().HexString()
HashHex(c) == CASE c.hash = "A" -> "hexA" [] c.hash = "B" -> "hexB" [] OTHER -> "hex?"

(***************************************************************************)
(* Policy gate                                                             *)
(***************************************************************************)
MsgDmcaCall == "Error while calling DMCA API"
MsgTakedown == "The content that you requested has been blocked because of legal, abuse, malware or security reasons. Please contact support@w3ipfs.storage for more information"
MsgDmcaOther == "Something went wrong"
MsgAccessCall == "Error while calling dedicated gateway API"
MsgAccessDenied == "No users have subscribed to this hash yet."
MsgNewRequest == "failed to create request"

\* faulty variant: status 410 is not told apart from the other statuses
checkDmca_NoGone(remote) ==
    IF remote = NoCall
    THEN [status |-> StatusInternalServerError, err |-> MsgNewRequest]
    ELSE IF remote = TransportError
    THEN [status |-> StatusInternalServerError, err |-> MsgDmcaCall]
    ELSE IF remote # 200
    THEN [status |-> remote, err |-> MsgDmcaOther]
    ELSE [status |-> StatusOK, err |-> None]

\* checkDmca: the (status, err) it returns for an outcome of the outbound
\* call.  err = None is a nil error.
checkDmca(remote) ==
    IF remote = NoCall
    THEN [status |-> StatusInternalServerError, err |-> MsgNewRequest]
    ELSE IF remote = TransportError
    THEN [status |-> StatusInternalServerError, err |-> MsgDmcaCall]
    ELSE IF remote = StatusGone
    THEN [status |-> StatusGone, err |-> MsgTakedown]
    ELSE IF remote # 200
    THEN [status |-> remote, err |-> MsgDmcaOther]
    ELSE [status |-> StatusOK, err |-> None]

\* faulty variant: the error of client.Do is dropped and the call counts as passed
getDedicatedGatewayAccess_FailOpen(remote) ==
    IF remote = NoCall
    THEN [status |-> StatusInternalServerError, err |-> MsgNewRequest]
    ELSE IF remote = TransportError
    THEN [status |-> StatusOK, err |-> None]
    ELSE IF remote # 200
    THEN [status |-> remote, err |-> MsgAccessDenied]
    ELSE [status |-> StatusOK, err |-> None]

\* getDedicatedGatewayAccess, likewise
getDedicatedGatewayAccess(remote) ==
    IF remote = NoCall
    THEN [status |-> StatusInternalServerError, err |-> MsgNewRequest]
    ELSE IF remote = TransportError
    THEN [status |-> StatusInternalServerError, err |-> MsgAccessCall]
    ELSE IF remote # 200
    THEN [status |-> remote, err |-> MsgAccessDenied]
    ELSE [status |-> StatusOK, err |-> None]

\* what the outbound call of a check can come back with under cfg
Outcomes == IF cfg.PinningServiceValid THEN Remotes ELSE {NoCall}

(***************************************************************************)
(* Limiters                                                                *)
(***************************************************************************)
\* rate.NewLimiter(rate.Every(time.Minute), int(rps)): the bucket is full
\* at its first use
NewLimiter(rps) == [burst |-> rps, tokens |-> rps]

\* the cell rate.NewLimiter returns for the n-th allocation made for a key
LimiterId(pool, key, n) == <<pool, key, n>>

CidKeys == {"QmA", "bafyA"}
PoolKeys == ({"ip"} \X Addrs) \cup ({"cid"} \X CidKeys)

\* r.RemoteAddr values of connections from two hosts, one of them with two
\* source ports (SpecKeys)
KeyAddrs == {"10.0.0.1:5001", "10.0.0.1:5002", "10.0.0.2:5001"}

\* the host part of a remote address, as net.SplitHostPort gives it
Host(addr) ==
    CASE addr \in {"10.0.0.1:5001", "10.0.0.1:5002"} -> "10.0.0.1"
      [] addr = "10.0.0.2:5001" -> "10.0.0.2"
      [] OTHER -> addr

\* every key a limiter is created for
AllKeys == PoolKeys \cup ({"ip"} \X KeyAddrs)

\* faulty variant: one key per host, whatever the source port
IpKey_HostOnly(addr) == CHOOSE b \in KeyAddrs : Host(b) = Host(addr)

\* the key of the client-address pool: getLimiter(r.RemoteAddr, ipLimiters,
\* 100) is passed the remote address as the server received it
IpKey(addr) == addr

\* getLimiter, lookup-or-create under mtx, as one step: the map, the heap
\* and the allocation count after the call, and the pointer returned
GetLimiterResult(pool, limit, limitMap, rps) ==
    IF limit \in DOMAIN limitMap
    THEN [map |-> limitMap, heap |-> heap, allocs |-> allocs,
          limiter |-> limitMap[limit]]
    ELSE LET id == LimiterId(pool, limit, allocs[<<pool, limit>>])
         IN  [map |-> limitMap @@ (limit :> id),
              heap |-> heap @@ (id :> NewLimiter(rps)),
              allocs |-> [allocs EXCEPT ![<<pool, limit>>] = @ + 1],
              limiter |-> id]

\* (*rate.Limiter).Allow(): whether a token is there, and the bucket after
AllowGrants(l) == l.tokens >= 1
AllowTake(l) == IF AllowGrants(l) THEN [l EXCEPT !.tokens = @ - 1] ELSE l

\* the goroutines of SpecLimiter
NumCallers == 2
Callers == 1..NumCallers
IdleCaller == [pc |-> "idle", limit |-> "", limiter |-> NoLimiter, exists |-> FALSE]

\* faulty variant: the call sites pass each other's burst
Burst_Swapped(pool) == IF pool = "ip" THEN CidBurst ELSE IpBurst

\* the burst each call site passes as rps, and the map it passes
Burst(pool) == IF pool = "ip" THEN IpBurst ELSE CidBurst
PoolMap(pool) == IF pool = "ip" THEN ipLimiters ELSE cidLimiters
KeysOf(pool) == {pk[2] : pk \in {q \in PoolKeys : q[1] = pool}}

\* one refill interval passes
Refill(l) == [l EXCEPT !.tokens = IF @ < l.burst THEN @ + 1 ELSE @]

(***************************************************************************)
(* DedicatedGatewayMiddleware: the handler run of one request.  The runs   *)
(* of the other requests the server handles at the same time reach the     *)
(* shared state only through getLimiter and Allow: OtherGetLimiter and     *)
(* OtherAllow are their steps, taken at any point of this run.             *)
(***************************************************************************)
\* http.Error(w, body, code); return
Reject(code, body) ==
    /\ w' = [code |-> code, body |-> body]
    /\ pc' = "done"

\* http.Error(w, body, code) as the client sees it.  WriteHeader panics on
\* a code below 100 or above 999: the server recovers, closes the connection
\* and nothing is sent (NoResponse).  A 1xx, 204 or 304 status allows no
\* body: the status goes out and the write of the message fails.
BodyAllowed(code) == ~(code \in 100..199 \/ code = 204 \/ code = 304)
HttpError(code, body) ==
    IF code < 100 \/ code > 999
    THEN NoResponse
    ELSE [code |-> code, body |-> IF BodyAllowed(code) THEN body ELSE ""]

\* what the client of the request has received from the middleware
Delivered == IF w = NoResponse THEN NoResponse ELSE HttpError(w.code, w.body)

\* the server hands a request to the handler
Receive ==
    /\ pc = "idle"
    /\ \E a \in Addrs, p \in Paths : r' = [RemoteAddr |-> a, Path |-> p]
    /\ pc' = "route"
    /\ UNCHANGED <<cfg, limVars, matches, cidv, lim, w, forwarded, trace>>
    /\ UNCHANGED nonReqVars

\* the if / else if on the mode and the prefix
Route ==
    /\ pc = "route"
    /\ pc' = IF cfg.DedicatedGateway /\ HasIpfsPrefix(r.Path) THEN "parse"
             ELSE IF ~cfg.DedicatedGateway /\ HasIpfsPrefix(r.Path) THEN "ipGet"
             ELSE "next"
    /\ UNCHANGED <<cfg, limVars, r, matches, cidv, lim, w, forwarded, trace>>
    /\ UNCHANGED nonReqVars

\* ipLimiter := getLimiter(r.RemoteAddr, ipLimiters, 100)
GetIpLimiter ==
    /\ pc = "ipGet"
    /\ mtx = {}
    /\ LET res == GetLimiterResult("ip", IpKey(r.RemoteAddr), ipLimiters, IpBurst)
       IN  /\ ipLimiters' = res.map
           /\ heap' = res.heap
           /\ allocs' = res.allocs
           /\ lim' = res.limiter
    /\ trace' = Append(trace, Event("getLimiter", "ip", IpKey(r.RemoteAddr), NoCall, TRUE))
    /\ pc' = "ipAllow"
    /\ UNCHANGED <<cfg, cidLimiters, mtx, r, matches, cidv, w, forwarded>>
    /\ UNCHANGED nonReqVars

\* faulty variant: the return after the 429 is missing
IpAllow_NoReturn ==
    /\ pc = "ipAllow"
    /\ heap' = [heap EXCEPT ![lim] = AllowTake(@)]
    /\ trace' = Append(trace, Event("Allow", "ip", lim[2], NoCall,
                                    AllowGrants(heap[lim])))
    /\ pc' = "parse"
    /\ w' = IF AllowGrants(heap[lim]) THEN w
            ELSE [code |-> StatusTooManyRequests,
                  body |-> "Too many requests from this IP"]
    /\ UNCHANGED <<cfg, ipLimiters, cidLimiters, allocs, mtx, r, matches, cidv,
                   lim, forwarded>>
    /\ UNCHANGED nonReqVars

\* if !ipLimiter.Allow() { 429 }
IpAllow ==
    /\ pc = "ipAllow"
    /\ heap' = [heap EXCEPT ![lim] = AllowTake(@)]
    /\ trace' = Append(trace, Event("Allow", "ip", lim[2], NoCall,
                                    AllowGrants(heap[lim])))
    /\ IF AllowGrants(heap[lim])
       THEN pc' = "parse" /\ w' = w
       ELSE Reject(StatusTooManyRequests, "Too many requests from this IP")
    /\ UNCHANGED <<cfg, ipLimiters, cidLimiters, allocs, mtx, r, matches, cidv,
                   lim, forwarded>>
    /\ UNCHANGED nonReqVars

\* FindStringSubmatch and cid.Parse, with their 400 answers
ParsePath ==
    /\ pc = "parse"
    /\ LET m == FindStringSubmatch(r.Path)
           c == IF m = None THEN NoCid ELSE Parse(m)
       IN  /\ matches' = m
           /\ cidv' = c
           /\ IF m = None
              THEN /\ Reject(StatusBadRequest, "Invalid path")
                   /\ trace' = Append(trace, Event("FindStringSubmatch", "", "",
                                                   NoCall, FALSE))
              ELSE /\ trace' = trace \o
                        << Event("FindStringSubmatch", "", m, NoCall, TRUE),
                           Event("cid.Parse", "", m, NoCall, c # NoCid) >>
                   /\ IF c = NoCid
                      THEN Reject(StatusBadRequest, "Invalid hash")
                      ELSE /\ pc' = IF cfg.DedicatedGateway THEN "dmca" ELSE "cidGet"
                           /\ w' = w
    /\ UNCHANGED <<cfg, limVars, r, lim, forwarded>>
    /\ UNCHANGED nonReqVars

\* cidLimiter := getLimiter(cid.String(), cidLimiters, 15)
GetCidLimiter ==
    /\ pc = "cidGet"
    /\ mtx = {}
    /\ LET res == GetLimiterResult("cid", CidString(cidv), cidLimiters, CidBurst)
       IN  /\ cidLimiters' = res.map
           /\ heap' = res.heap
           /\ allocs' = res.allocs
           /\ lim' = res.limiter
    /\ trace' = Append(trace, Event("getLimiter", "cid", CidString(cidv), NoCall, TRUE))
    /\ pc' = "cidAllow"
    /\ UNCHANGED <<cfg, ipLimiters, mtx, r, matches, cidv, w, forwarded>>
    /\ UNCHANGED nonReqVars

\* faulty variant: the return after the 429 is missing
CidAllow_NoReturn ==
    /\ pc = "cidAllow"
    /\ heap' = [heap EXCEPT ![lim] = AllowTake(@)]
    /\ trace' = Append(trace, Event("Allow", "cid", lim[2], NoCall,
                                    AllowGrants(heap[lim])))
    /\ pc' = "dmca"
    /\ w' = IF AllowGrants(heap[lim]) THEN w
            ELSE [code |-> StatusTooManyRequests,
                  body |-> "Too many requests for this CID"]
    /\ UNCHANGED <<cfg, ipLimiters, cidLimiters, allocs, mtx, r, matches, cidv,
                   lim, forwarded>>
    /\ UNCHANGED nonReqVars

\* if !cidLimiter.Allow() { 429 }
CidAllow ==
    /\ pc = "cidAllow"
    /\ heap' = [heap EXCEPT ![lim] = AllowTake(@)]
    /\ trace' = Append(trace, Event("Allow", "cid", lim[2], NoCall,
                                    AllowGrants(heap[lim])))
    /\ IF AllowGrants(heap[lim])
       THEN pc' = "dmca" /\ w' = w
       ELSE Reject(StatusTooManyRequests, "Too many requests for this CID")
    /\ UNCHANGED <<cfg, ipLimiters, cidLimiters, allocs, mtx, r, matches, cidv,
                   lim, forwarded>>
    /\ UNCHANGED nonReqVars

\* faulty variant: a moderation denial puts the resource token back
CheckDmca_Refund ==
    /\ pc = "dmca"
    /\ \E remote \in Outcomes :
          LET res == checkDmca(remote)
          IN  /\ trace' = Append(trace, Event("checkDmca", "", CidString(cidv),
                                              remote, res.err = None))
              /\ IF res.err # None
                 THEN /\ Reject(res.status, res.err)
                      /\ heap' = IF lim \in DOMAIN heap
                                 THEN [heap EXCEPT ![lim].tokens = @ + 1]
                                 ELSE heap
                 ELSE /\ pc' = IF cfg.DedicatedGateway THEN "access" ELSE "next"
                      /\ w' = w
                      /\ heap' = heap
    /\ UNCHANGED <<cfg, ipLimiters, cidLimiters, allocs, mtx, r, matches, cidv,
                   lim, forwarded>>
    /\ UNCHANGED nonReqVars

\* faulty variant: the return after http.Error is missing
CheckDmca_NoReturn ==
    /\ pc = "dmca"
    /\ \E remote \in Outcomes :
          LET res == checkDmca(remote)
          IN  /\ trace' = Append(trace, Event("checkDmca", "", CidString(cidv),
                                              remote, res.err = None))
              /\ w' = IF res.err # None
                      THEN [code |-> res.status, body |-> res.err]
                      ELSE w
              /\ pc' = IF cfg.DedicatedGateway THEN "access" ELSE "next"
    /\ UNCHANGED <<cfg, limVars, r, matches, cidv, lim, forwarded>>
    /\ UNCHANGED nonReqVars

\* status, err := checkDmca(cid.String(), cfg); on err, http.Error and return
CheckDmca ==
    /\ pc = "dmca"
    /\ \E remote \in Outcomes :
          LET res == checkDmca(remote)
          IN  /\ trace' = Append(trace, Event("checkDmca", "", CidString(cidv),
                                              remote, res.err = None))
              /\ IF res.err # None
                 THEN Reject(res.status, res.err)
                 ELSE /\ pc' = IF cfg.DedicatedGateway THEN "access" ELSE "next"
                      /\ w' = w
    /\ UNCHANGED <<cfg, limVars, r, matches, cidv, lim, forwarded>>
    /\ UNCHANGED nonReqVars

\* status, err = getDedicatedGatewayAccess(cid.Hash().HexString(), cfg)
CheckAccess ==
    /\ pc = "access"
    /\ \E remote \in Outcomes :
          LET res == getDedicatedGatewayAccess(remote)
          IN  /\ trace' = Append(trace, Event("getDedicatedGatewayAccess", "",
                                              HashHex(cidv), remote, res.err = None))
              /\ IF res.err # None
                 THEN Reject(res.status, res.err)
                 ELSE pc' = "next" /\ w' = w
    /\ UNCHANGED <<cfg, limVars, r, matches, cidv, lim, forwarded>>
    /\ UNCHANGED nonReqVars

\* next.ServeHTTP(w, r)
Forward ==
    /\ pc = "next"
    /\ forwarded' = forwarded + 1
    /\ pc' = "done"
    /\ UNCHANGED <<cfg, limVars, r, matches, cidv, lim, w, trace>>
    /\ UNCHANGED nonReqVars

\* the handler has returned; the run's frame is gone
Return ==
    /\ pc = "done"
    /\ pc' = "idle"
    /\ r' = NoRequest
    /\ matches' = None
    /\ cidv' = NoCid
    /\ lim' = NoLimiter
    /\ w' = NoResponse
    /\ forwarded' = 0
    /\ trace' = <<>>
    /\ UNCHANGED <<cfg, limVars>>
    /\ UNCHANGED nonReqVars

\* the requests the other runs handle are drawn from the same inputs
OtherCidKeys ==
    {CidString(Parse(FindStringSubmatch(p))) :
        p \in {q \in Paths : /\ HasIpfsPrefix(q)
                              /\ FindStringSubmatch(q) # None
                              /\ Parse(FindStringSubmatch(q)) # NoCid}}

\* another request's run calls getLimiter (open mode only)
OtherGetLimiter ==
    /\ ~cfg.DedicatedGateway
    /\ mtx = {}
    /\ \/ \E a \in Addrs :
             LET res == GetLimiterResult("ip", a, ipLimiters, IpBurst)
             IN  /\ ipLimiters' = res.map
                 /\ heap' = res.heap
                 /\ allocs' = res.allocs
                 /\ UNCHANGED cidLimiters
       \/ \E k \in OtherCidKeys :
             LET res == GetLimiterResult("cid", k, cidLimiters, CidBurst)
             IN  /\ cidLimiters' = res.map
                 /\ heap' = res.heap
                 /\ allocs' = res.allocs
                 /\ UNCHANGED ipLimiters
    /\ UNCHANGED <<cfg, mtx, reqVars>>
    /\ UNCHANGED nonReqVars

\* another request's run calls Allow on a limiter it was returned
OtherAllow ==
    /\ \E id \in DOMAIN heap : heap' = [heap EXCEPT ![id] = AllowTake(@)]
    /\ UNCHANGED <<cfg, ipLimiters, cidLimiters, allocs, mtx, reqVars>>
    /\ UNCHANGED nonReqVars

\* one refill interval (a minute) passes
Tick ==
    /\ heap' = [id \in DOMAIN heap |-> Refill(heap[id])]
    /\ UNCHANGED <<cfg, ipLimiters, cidLimiters, allocs, mtx, reqVars>>
    /\ UNCHANGED nonReqVars

\* no goroutine of SpecLimiter runs
CallersIdle ==
    /\ lpool = "ip"
    /\ g = [c \in Callers |-> IdleCaller]
    /\ fresh = [pk \in PoolKeys |-> [calls |-> 0, grants |-> 0]]
    /\ refilled = {}

\* Serve has not been called
ServeIdle ==
    /\ options = <<>>
    /\ spc = "idle"
    /\ lisOpen = TRUE
    /\ closing = FALSE
    /\ loop = "none"
    /\ procClosed = FALSE
    /\ serverError = None
    /\ shutdownBegun = FALSE
    /\ shutErr = None
    /\ inflight = 0
    /\ sinceSignal = -1
    /\ ctxAge = -1
    /\ warnAge = -1
    /\ notices = 0
    /\ retErr = None
    /\ loopOwn = FALSE
    /\ sigServing = FALSE
    /\ handler = NoHandler
    /\ last = NoDispatch

\* no path has been handled in SpecKeys
KeysIdle == derived = <<>>

Init ==
    /\ cfg \in [DedicatedGateway : BOOLEAN, PinningServiceValid : BOOLEAN]
    /\ ipLimiters = <<>>
    /\ cidLimiters = <<>>
    /\ heap = <<>>
    /\ allocs = [pk \in AllKeys |-> 0]
    /\ mtx = {}
    /\ pc = "idle"
    /\ r = NoRequest
    /\ matches = None
    /\ cidv = NoCid
    /\ lim = NoLimiter
    /\ w = NoResponse
    /\ forwarded = 0
    /\ trace = <<>>
    /\ CallersIdle
    /\ ServeIdle
    /\ KeysIdle

Next ==
    \/ Receive
    \/ Route
    \/ GetIpLimiter
    \/ IpAllow
    \/ ParsePath
    \/ GetCidLimiter
    \/ CidAllow
    \/ CheckDmca
    \/ CheckAccess
    \/ Forward
    \/ Return
    \/ OtherGetLimiter
    \/ OtherAllow
    \/ Tick

Spec == Init /\ [][Next]_vars

(***************************************************************************)
(* getLimiter and Allow, statement by statement, called by the goroutines  *)
(* of concurrent requests (SpecLimiter).  All of them work on one pool,    *)
(* chosen at the start: the client-address pool with the addresses as keys *)
(* or the resource pool with the identifier strings as keys.               *)
(***************************************************************************)
SetPoolMap(pool, m) ==
    IF pool = "ip"
    THEN ipLimiters' = m /\ cidLimiters' = cidLimiters
    ELSE cidLimiters' = m /\ ipLimiters' = ipLimiters

\* a handler calls getLimiter(limit, limitMap, rps)
LCall(c) ==
    /\ g[c].pc = "idle"
    /\ \E k \in KeysOf(lpool) :
          g' = [g EXCEPT ![c] = [pc |-> "lock", limit |-> k,
                                 limiter |-> NoLimiter, exists |-> FALSE]]
    /\ UNCHANGED <<limVars, lpool, fresh, refilled>>
    /\ UNCHANGED nonCallerVars

\* faulty variant: mtx.Lock() is missing, the body runs without waiting
LLock_NoMutex(c) ==
    /\ g[c].pc = "lock"
    /\ mtx' = mtx \cup {c}
    /\ g' = [g EXCEPT ![c].pc = "lookup"]
    /\ UNCHANGED <<ipLimiters, cidLimiters, heap, allocs, lpool,
                   fresh, refilled>>
    /\ UNCHANGED nonCallerVars

\* mtx.Lock()
LLock(c) ==
    /\ g[c].pc = "lock"
    /\ mtx = {}
    /\ mtx' = {c}
    /\ g' = [g EXCEPT ![c].pc = "lookup"]
    /\ UNCHANGED <<ipLimiters, cidLimiters, heap, allocs, lpool,
                   fresh, refilled>>
    /\ UNCHANGED nonCallerVars

\* limiter, exists := limitMap[limit]; if !exists
LLookup(c) ==
    /\ g[c].pc = "lookup"
    /\ LET m == PoolMap(lpool)
           found == g[c].limit \in DOMAIN m
       IN  g' = [g EXCEPT ![c].exists = found,
                          ![c].limiter = IF found THEN m[g[c].limit] ELSE NoLimiter,
                          ![c].pc = IF found THEN "unlock" ELSE "create"]
    /\ UNCHANGED <<limVars, lpool, fresh, refilled>>
    /\ UNCHANGED nonCallerVars

\* limiter = rate.NewLimiter(...); limitMap[limit] = limiter
LCreate(c) ==
    /\ g[c].pc = "create"
    /\ LET pk == <<lpool, g[c].limit>>
           id == LimiterId(lpool, g[c].limit, allocs[pk])
       IN  /\ heap' = heap @@ (id :> NewLimiter(Burst(lpool)))
           /\ allocs' = [allocs EXCEPT ![pk] = @ + 1]
           /\ SetPoolMap(lpool, (g[c].limit :> id) @@ PoolMap(lpool))
           /\ g' = [g EXCEPT ![c].limiter = id, ![c].pc = "unlock"]
    /\ UNCHANGED <<mtx, lpool, fresh, refilled>>
    /\ UNCHANGED nonCallerVars

\* return limiter, with the deferred mtx.Unlock()
LUnlock(c) ==
    /\ g[c].pc = "unlock"
    /\ mtx' = mtx \ {c}
    /\ g' = [g EXCEPT ![c].pc = "allow"]
    /\ UNCHANGED <<ipLimiters, cidLimiters, heap, allocs, lpool,
                   fresh, refilled>>
    /\ UNCHANGED nonCallerVars

\* a count that stops one past the burst
CountUp(n, pool) == IF n <= Burst(pool) THEN n + 1 ELSE n

\* the handler calls Allow() on the limiter it was returned
LAllow(c) ==
    /\ g[c].pc = "allow"
    /\ LET pk == <<lpool, g[c].limit>>
           ok == AllowGrants(heap[g[c].limiter])
       IN  /\ heap' = [heap EXCEPT ![g[c].limiter] = AllowTake(@)]
           /\ fresh' = IF pk \in refilled THEN fresh
                       ELSE [fresh EXCEPT
                               ![pk].calls = CountUp(@, lpool),
                               ![pk].grants = IF ok THEN CountUp(@, lpool) ELSE @]
    /\ g' = [g EXCEPT ![c] = IdleCaller]
    /\ UNCHANGED <<ipLimiters, cidLimiters, allocs, mtx, lpool,
                   refilled>>
    /\ UNCHANGED nonCallerVars

\* one refill interval (a minute) passes
LimTick ==
    /\ heap' = [id \in DOMAIN heap |-> Refill(heap[id])]
    /\ LET seen == {pk \in PoolKeys : pk[2] \in DOMAIN PoolMap(pk[1])}
       IN  /\ refilled' = refilled \cup seen
           /\ fresh' = [pk \in PoolKeys |->
                          IF pk \in seen THEN [calls |-> 0, grants |-> 0]
                          ELSE fresh[pk]]
    /\ UNCHANGED <<ipLimiters, cidLimiters, allocs, mtx, lpool, g>>
    /\ UNCHANGED nonCallerVars

InitLimiter ==
    /\ cfg = [DedicatedGateway |-> FALSE, PinningServiceValid |-> TRUE]
    /\ ipLimiters = <<>>
    /\ cidLimiters = <<>>
    /\ heap = <<>>
    /\ allocs = [pk \in AllKeys |-> 0]
    /\ mtx = {}
    /\ pc = "idle"
    /\ r = NoRequest
    /\ matches = None
    /\ cidv = NoCid
    /\ lim = NoLimiter
    /\ w = NoResponse
    /\ forwarded = 0
    /\ trace = <<>>
    /\ lpool \in {"ip", "cid"}
    /\ g = [c \in Callers |-> IdleCaller]
    /\ fresh = [pk \in PoolKeys |-> [calls |-> 0, grants |-> 0]]
    /\ refilled = {}
    /\ ServeIdle
    /\ KeysIdle

NextLimiter ==
    \/ \E c \in Callers : LCall(c)
    \/ \E c \in Callers : LLock(c)
    \/ \E c \in Callers : LLookup(c)
    \/ \E c \in Callers : LCreate(c)
    \/ \E c \in Callers : LUnlock(c)
    \/ \E c \in Callers : LAllow(c)
    \/ LimTick

SpecLimiter == InitLimiter /\ [][NextLimiter]_vars

(***************************************************************************)
(* The strings the handler derives from a path (SpecKeys): the key of the  *)
(* resource limiter and the arguments of the policy checks.                *)
(***************************************************************************)
MaxDerived == 2
KeyTokens == {"QmA", "bafyA", "zA", "QmB", "bafyB", "zB", "notacid"}
KeyPaths == {<<"", "ipfs", t>> : t \in KeyTokens}

\* matches[1], cid.Parse(matches[1]) and the strings made of the cid for
\* getLimiter, checkDmca and getDedicatedGatewayAccess; "" where the
\* handler does not get to the call
Derivation(addr, path, ipLimiter, ipTokens) ==
    LET m == FindStringSubmatch(path)
        c == IF m = None THEN NoCid ELSE Parse(m)
    IN  [token |-> m, cid |-> c,
         limiterKey |-> IF c = NoCid \/ cfg.DedicatedGateway THEN "" ELSE CidString(c),
         dmcaArg |-> IF c = NoCid THEN "" ELSE CidString(c),
         accessArg |-> IF c = NoCid \/ ~cfg.DedicatedGateway THEN "" ELSE HashHex(c),
         addr |-> addr,
         ipKey |-> IF cfg.DedicatedGateway THEN "" ELSE IpKey(addr),
         ipLimiter |-> ipLimiter,
         ipTokens |-> ipTokens]

\* one request handled: in open mode the client-address limiter is looked up
\* or created under the request's key and asked for a token, then the
\* content strings are derived from the path
Derive ==
    /\ Len(derived) < MaxDerived
    /\ \E a \in KeyAddrs, p \in KeyPaths :
          IF cfg.DedicatedGateway
          THEN /\ derived' = Append(derived, Derivation(a, p, NoLimiter, 0))
               /\ UNCHANGED <<ipLimiters, heap, allocs>>
          ELSE LET res == GetLimiterResult("ip", IpKey(a), ipLimiters, IpBurst)
                   after == AllowTake(res.heap[res.limiter])
               IN  /\ ipLimiters' = res.map
                   /\ heap' = [res.heap EXCEPT ![res.limiter] = after]
                   /\ allocs' = res.allocs
                   /\ derived' = Append(derived,
                                        Derivation(a, p, res.limiter, after.tokens))
    /\ UNCHANGED <<cfg, cidLimiters, mtx, reqVars, callerVars, serveVars, muxVars>>

\* the process is started afresh: no request handled, no limiter
Forget ==
    /\ derived # <<>>
    /\ derived' = <<>>
    /\ ipLimiters' = <<>>
    /\ heap' = <<>>
    /\ allocs' = [pk \in AllKeys |-> 0]
    /\ UNCHANGED <<cfg, cidLimiters, mtx, reqVars, callerVars, serveVars, muxVars>>

NextKeys ==
    \/ Derive
    \/ Forget

SpecKeys == Init /\ [][NextKeys]_vars

(***************************************************************************)
(* MakeHandler and Serve (SpecServe).  Time passes in TimeTick steps, one  *)
(* time-unit each; a step of the program that is ready to run is taken     *)
(* before the next time-unit passes, a request takes as long as it likes.  *)
(***************************************************************************)
shutdownTimeout == 30
warnInterval == 5
TopMux == 0
MaxOptions == 2
MaxInflight == 2

ErrConfig == "config error"
ErrAddr == "address error"
ErrClosing == "failed to start server, process closing"
ErrAccept == "accept error"
ErrServerClosed == "http: Server closed"
DeadlineExceeded == "context deadline exceeded"

\* a ServeOption: it returns the mux it was given ("same"), a new mux
\* ("wrap"), or an error ("fail")
OptionKinds == {"same", "wrap", "fail"}
OptionLists == UNION {[1..n -> OptionKinds] : n \in 0..MaxOptions}

\* the loop of MakeHandler from option i on: the error, the mux each invoked
\* option was passed, and the mux left at the end
\* the error the i-th option of the list returns when it fails
OptionError(i) ==
    CASE i = 1 -> "option 1 failed"
      [] i = 2 -> "option 2 failed"
      [] i = 3 -> "option 3 failed"
      [] OTHER -> "option failed"

\* mux, err = option(n, l, mux) for the i-th option: the mux it was given
\* back ("same"), a new mux, named i ("wrap"), or nil, -1, and an error
Option(i, kind, mux) ==
    CASE kind = "same" -> [mux |-> mux, err |-> None]
      [] kind = "wrap" -> [mux |-> i, err |-> None]
      [] OTHER         -> [mux |-> -1, err |-> OptionError(i)]

\* faulty variant: every option is passed topMux
RECURSIVE ApplyOptions_TopOnly(_, _, _, _)
ApplyOptions_TopOnly(opts, i, mux, calls) ==
    IF i > Len(opts)
    THEN [err |-> None, calls |-> calls, mux |-> mux]
    ELSE LET res == Option(i, opts[i], TopMux)
             c == Append(calls, [given |-> TopMux, returned |-> res.mux,
                                 err |-> res.err])
         IN  IF res.err # None
             THEN [err |-> res.err, calls |-> c, mux |-> res.mux]
             ELSE ApplyOptions_TopOnly(opts, i + 1, res.mux, c)

\* the loop of MakeHandler from option i on: the error, the calls made
\* (the mux given, the mux and the error returned) and the mux left
RECURSIVE ApplyOptions(_, _, _, _)
ApplyOptions(opts, i, mux, calls) ==
    IF i > Len(opts)
    THEN [err |-> None, calls |-> calls, mux |-> mux]
    ELSE LET res == Option(i, opts[i], mux)
             c == Append(calls, [given |-> mux, returned |-> res.mux,
                                 err |-> res.err])
         IN  IF res.err # None
             THEN [err |-> res.err, calls |-> c, mux |-> res.mux]
             ELSE ApplyOptions(opts, i + 1, res.mux, c)

\* MakeHandler: (handler, nil) or (nil, err).  The handler is the closure
\* over topMux: top is the mux it holds, -1 when no handler is returned;
\* mux is the local variable mux when the loop ends.
MakeHandler(opts) ==
    LET res == ApplyOptions(opts, 1, TopMux, <<>>)
    IN  [top |-> IF res.err = None THEN TopMux ELSE -1,
         mux |-> res.mux,
         err |-> res.err,
         calls |-> res.calls]

\* the verbs of the requests
Methods == {"GET", "POST", "CONNECT"}

\* faulty variant: the handler dispatches to the mux the last option returned
ServeHTTP_LastMux(h, method) ==
    IF method = "CONNECT"
    THEN [code |-> StatusOK, mux |-> -1]
    ELSE [code |-> 0, mux |-> h.mux]

\* the handler MakeHandler returns, called with a request: the status it
\* writes itself (0: none) and the mux it dispatches to (-1: none)
ServeHTTP(h, method) ==
    IF method = "CONNECT"
    THEN [code |-> StatusOK, mux |-> -1]
    ELSE [code |-> 0, mux |-> h.top]

\* faulty variant: the context passed to Shutdown has no deadline
CtxDone_Background(age) == FALSE

\* ctx.Done() of context.WithTimeout(context.Background(), shutdownTimeout)
CtxDone(age) == age >= shutdownTimeout

\* return err, with the deferred lis.Close()
ServeReturns(err) ==
    /\ retErr' = err
    /\ lisOpen' = FALSE
    /\ spc' = "returned"

\* faulty variant: the error of MakeHandler is not looked at
SMakeHandler_IgnoreErr ==
    /\ spc = "makeHandler"
    /\ handler' = MakeHandler(options)
    /\ spc' = "config"
    /\ UNCHANGED <<retErr, lisOpen>>
    /\ UNCHANGED <<options, closing, loop, procClosed, serverError,
                   shutdownBegun, shutErr, inflight, sinceSignal, ctxAge,
                   warnAge, notices, loopOwn, sigServing>>
    /\ UNCHANGED <<last, nonServeVars>>

\* handler, err := MakeHandler(node, lis, options...)
SMakeHandler ==
    /\ spc = "makeHandler"
    /\ handler' = MakeHandler(options)
    /\ IF MakeHandler(options).err # None
       THEN ServeReturns(MakeHandler(options).err)
       ELSE spc' = "config" /\ UNCHANGED <<retErr, lisOpen>>
    /\ UNCHANGED <<options, closing, loop, procClosed, serverError,
                   shutdownBegun, shutErr, inflight, sinceSignal, ctxAge,
                   warnAge, notices, loopOwn, sigServing>>
    /\ UNCHANGED <<last, nonServeVars>>

\* cfg, err := node.Repo.Config()
SConfig ==
    /\ spc = "config"
    /\ \/ ServeReturns(ErrConfig)
       \/ spc' = "addr" /\ UNCHANGED <<retErr, lisOpen>>
    /\ UNCHANGED <<options, closing, loop, procClosed, serverError,
                   shutdownBegun, shutErr, inflight, sinceSignal, ctxAge,
                   warnAge, notices, loopOwn, sigServing>>
    /\ UNCHANGED <<muxVars, nonServeVars>>

\* addr, err := manet.FromNetAddr(lis.Addr())
SAddr ==
    /\ spc = "addr"
    /\ \/ ServeReturns(ErrAddr)
       \/ spc' = "check" /\ UNCHANGED <<retErr, lisOpen>>
    /\ UNCHANGED <<options, closing, loop, procClosed, serverError,
                   shutdownBegun, shutErr, inflight, sinceSignal, ctxAge,
                   warnAge, notices, loopOwn, sigServing>>
    /\ UNCHANGED <<muxVars, nonServeVars>>

\* select { case <-node.Process.Closing(): return ...; default: }
SCheckClosing ==
    /\ spc = "check"
    /\ IF closing
       THEN ServeReturns(ErrClosing)
       ELSE spc' = "go" /\ UNCHANGED <<retErr, lisOpen>>
    /\ UNCHANGED <<options, closing, loop, procClosed, serverError,
                   shutdownBegun, shutErr, inflight, sinceSignal, ctxAge,
                   warnAge, notices, loopOwn, sigServing>>
    /\ UNCHANGED <<muxVars, nonServeVars>>

\* serverProc := node.Process.Go(...): the serve loop starts
SGo ==
    /\ spc = "go"
    /\ loop' = "running"
    /\ spc' = "select"
    /\ UNCHANGED <<options, lisOpen, closing, procClosed, serverError,
                   shutdownBegun, shutErr, inflight, sinceSignal, ctxAge,
                   warnAge, notices, retErr, loopOwn, sigServing>>
    /\ UNCHANGED <<muxVars, nonServeVars>>

\* the serve loop accepts a connection and its request starts: the
\* middleware rejects it or calls next.ServeHTTP, the handler of MakeHandler
Accept ==
    /\ loop = "running"
    /\ ~shutdownBegun
    /\ inflight < MaxInflight
    /\ inflight' = inflight + 1
    /\ \E method \in Methods, admitted \in BOOLEAN :
          last' = IF admitted
                  THEN [method |-> method, admitted |-> TRUE,
                        code |-> ServeHTTP(handler, method).code,
                        mux |-> ServeHTTP(handler, method).mux]
                  ELSE [method |-> method, admitted |-> FALSE,
                        code |-> 0, mux |-> -1]
    /\ UNCHANGED <<options, spc, lisOpen, closing, loop, procClosed,
                   serverError, shutdownBegun, shutErr, sinceSignal, ctxAge,
                   warnAge, notices, retErr, loopOwn, sigServing>>
    /\ UNCHANGED <<handler, nonServeVars>>

\* a request completes: its response is delivered
Complete ==
    /\ inflight > 0
    /\ inflight' = inflight - 1
    /\ UNCHANGED <<options, spc, lisOpen, closing, loop, procClosed,
                   serverError, shutdownBegun, shutErr, sinceSignal, ctxAge,
                   warnAge, notices, retErr, loopOwn, sigServing>>
    /\ UNCHANGED <<muxVars, nonServeVars>>

\* serverError = server.Serve(lis): the loop exits by itself (the listener
\* was closed from outside, or Accept failed)
LoopFail ==
    /\ loop = "running"
    /\ ~shutdownBegun
    /\ loop' = "exited"
    /\ serverError' = ErrAccept
    /\ loopOwn' = TRUE
    /\ UNCHANGED <<options, spc, lisOpen, closing, procClosed, shutdownBegun,
                   shutErr, inflight, sinceSignal, ctxAge, warnAge, notices,
                   retErr, sigServing>>
    /\ UNCHANGED <<muxVars, nonServeVars>>

\* serverError = server.Serve(lis): the loop exits because of Shutdown
LoopShutdown ==
    /\ loop = "running"
    /\ shutdownBegun
    /\ loop' = "exited"
    /\ serverError' = ErrServerClosed
    /\ UNCHANGED <<options, spc, lisOpen, closing, procClosed, shutdownBegun,
                   shutErr, inflight, sinceSignal, ctxAge, warnAge, notices,
                   retErr, loopOwn, sigServing>>
    /\ UNCHANGED <<muxVars, nonServeVars>>

\* the function of serverProc has returned: serverProc closes
ProcClosed ==
    /\ loop = "exited"
    /\ ~procClosed
    /\ procClosed' = TRUE
    /\ UNCHANGED <<options, spc, lisOpen, closing, loop, serverError,
                   shutdownBegun, shutErr, inflight, sinceSignal, ctxAge,
                   warnAge, notices, retErr, loopOwn, sigServing>>
    /\ UNCHANGED <<muxVars, nonServeVars>>

\* the node's process starts closing: the shutdown signal
Signal ==
    /\ ~closing
    /\ spc # "returned"
    /\ closing' = TRUE
    /\ sinceSignal' = 0
    /\ sigServing' = (spc = "select" /\ loop = "running")
    /\ UNCHANGED <<options, spc, lisOpen, loop, procClosed, serverError,
                   shutdownBegun, shutErr, inflight, ctxAge, warnAge, notices,
                   retErr, loopOwn>>
    /\ UNCHANGED <<muxVars, nonServeVars>>

\* select: case <-serverProc.Closed()
SSelectClosed ==
    /\ spc = "select"
    /\ procClosed
    /\ spc' = "ret"
    /\ UNCHANGED <<options, lisOpen, closing, loop, procClosed, serverError,
                   shutdownBegun, shutErr, inflight, sinceSignal, ctxAge,
                   warnAge, notices, retErr, loopOwn, sigServing>>
    /\ UNCHANGED <<muxVars, nonServeVars>>

\* faulty variant: the second case of the select does not wait for the signal
SSelectClosing_NoSignal ==
    /\ spc = "select"
    /\ warnAge' = 0
    /\ ctxAge' = 0
    /\ shutdownBegun' = TRUE
    /\ spc' = "shutdown"
    /\ UNCHANGED <<options, lisOpen, closing, loop, procClosed, serverError,
                   shutErr, inflight, sinceSignal, notices, retErr, loopOwn,
                   sigServing>>
    /\ UNCHANGED <<muxVars, nonServeVars>>

\* select: case <-node.Process.Closing(); warnProc and ctx are made and
\* server.Shutdown(ctx) is entered
SSelectClosing ==
    /\ spc = "select"
    /\ closing
    /\ warnAge' = 0
    /\ ctxAge' = 0
    /\ shutdownBegun' = TRUE
    /\ spc' = "shutdown"
    /\ UNCHANGED <<options, lisOpen, closing, loop, procClosed, serverError,
                   shutErr, inflight, sinceSignal, notices, retErr, loopOwn,
                   sigServing>>
    /\ UNCHANGED <<muxVars, nonServeVars>>

\* server.Shutdown returns nil: no connection is busy
SShutdownDone ==
    /\ spc = "shutdown"
    /\ inflight = 0
    /\ shutErr' = None
    /\ spc' = "waitClosed"
    /\ UNCHANGED <<options, lisOpen, closing, loop, procClosed, serverError,
                   shutdownBegun, inflight, sinceSignal, ctxAge, warnAge,
                   notices, retErr, loopOwn, sigServing>>
    /\ UNCHANGED <<muxVars, nonServeVars>>

\* server.Shutdown returns ctx.Err(): the deadline passed
SShutdownTimeout ==
    /\ spc = "shutdown"
    /\ CtxDone(ctxAge)
    /\ shutErr' = DeadlineExceeded
    /\ spc' = "waitClosed"
    /\ UNCHANGED <<options, lisOpen, closing, loop, procClosed, serverError,
                   shutdownBegun, inflight, sinceSignal, ctxAge, warnAge,
                   notices, retErr, loopOwn, sigServing>>
    /\ UNCHANGED <<muxVars, nonServeVars>>

\* faulty variant: warnProc is not closed
SWaitClosed_NoClose ==
    /\ spc = "waitClosed"
    /\ procClosed
    /\ serverError' = shutErr
    /\ spc' = "ret"
    /\ UNCHANGED <<options, lisOpen, closing, loop, procClosed, shutdownBegun,
                   shutErr, inflight, sinceSignal, ctxAge, warnAge, notices,
                   retErr, loopOwn, sigServing>>
    /\ UNCHANGED <<muxVars, nonServeVars>>

\* <-serverProc.Closed(); serverError = err; warnProc.Close()
SWaitClosed ==
    /\ spc = "waitClosed"
    /\ procClosed
    /\ serverError' = shutErr
    /\ warnAge' = -1
    /\ spc' = "ret"
    /\ UNCHANGED <<options, lisOpen, closing, loop, procClosed, shutdownBegun,
                   shutErr, inflight, sinceSignal, ctxAge, notices, retErr,
                   loopOwn, sigServing>>
    /\ UNCHANGED <<muxVars, nonServeVars>>

\* return serverError
SReturn ==
    /\ spc = "ret"
    /\ ServeReturns(serverError)
    /\ UNCHANGED <<options, closing, loop, procClosed, serverError,
                   shutdownBegun, shutErr, inflight, sinceSignal, ctxAge,
                   warnAge, notices, loopOwn, sigServing>>
    /\ UNCHANGED <<muxVars, nonServeVars>>

\* the notifications counted, at most one more than fit before the deadline
NoticeCap == (shutdownTimeout \div warnInterval) + 1

\* warnProc's ticker fires: "waiting for server at %s to terminate..."
Warn ==
    /\ warnAge >= warnInterval
    /\ warnAge' = 0
    /\ notices' = IF notices < NoticeCap THEN notices + 1 ELSE notices
    /\ UNCHANGED <<options, spc, lisOpen, closing, loop, procClosed,
                   serverError, shutdownBegun, shutErr, inflight, sinceSignal,
                   ctxAge, retErr, loopOwn, sigServing>>
    /\ UNCHANGED <<muxVars, nonServeVars>>

\* a step of the program is ready to run
Ready ==
    \/ spc \in {"makeHandler", "config", "addr", "check", "go", "ret"}
    \/ spc = "select" /\ (procClosed \/ closing)
    \/ spc = "shutdown" /\ (inflight = 0 \/ CtxDone(ctxAge))
    \/ spc = "waitClosed" /\ procClosed
    \/ loop = "running" /\ shutdownBegun
    \/ loop = "exited" /\ ~procClosed
    \/ warnAge >= warnInterval

\* the clocks stop counting one time-unit past the deadline
ClockCap == shutdownTimeout + 1
Older(t) == IF t >= 0 /\ t < ClockCap THEN t + 1 ELSE t

\* one time-unit passes, once the signal has set the clocks going
TimeTick ==
    /\ sinceSignal >= 0
    /\ spc # "returned"
    /\ ~Ready
    /\ sinceSignal' = Older(sinceSignal)
    /\ ctxAge' = Older(ctxAge)
    /\ warnAge' = Older(warnAge)
    /\ UNCHANGED <<options, spc, lisOpen, closing, loop, procClosed,
                   serverError, shutdownBegun, shutErr, inflight, notices,
                   retErr, loopOwn, sigServing>>
    /\ UNCHANGED <<muxVars, nonServeVars>>

\* Serve is called with an open listener
InitServe ==
    /\ cfg = [DedicatedGateway |-> FALSE, PinningServiceValid |-> TRUE]
    /\ ipLimiters = <<>>
    /\ cidLimiters = <<>>
    /\ heap = <<>>
    /\ allocs = [pk \in AllKeys |-> 0]
    /\ mtx = {}
    /\ pc = "idle"
    /\ r = NoRequest
    /\ matches = None
    /\ cidv = NoCid
    /\ lim = NoLimiter
    /\ w = NoResponse
    /\ forwarded = 0
    /\ trace = <<>>
    /\ CallersIdle
    /\ options \in OptionLists
    /\ spc = "makeHandler"
    /\ lisOpen = TRUE
    /\ closing = FALSE
    /\ loop = "none"
    /\ procClosed = FALSE
    /\ serverError = None
    /\ shutdownBegun = FALSE
    /\ shutErr = None
    /\ inflight = 0
    /\ sinceSignal = -1
    /\ ctxAge = -1
    /\ warnAge = -1
    /\ notices = 0
    /\ retErr = None
    /\ loopOwn = FALSE
    /\ sigServing = FALSE
    /\ handler = NoHandler
    /\ last = NoDispatch
    /\ KeysIdle

\* the steps of the goroutine running Serve
ServeStep ==
    \/ SMakeHandler
    \/ SConfig
    \/ SAddr
    \/ SCheckClosing
    \/ SGo
    \/ SSelectClosed
    \/ SSelectClosing
    \/ SShutdownDone
    \/ SShutdownTimeout
    \/ SWaitClosed
    \/ SReturn

NextServe ==
    \/ SMakeHandler
    \/ SConfig
    \/ SAddr
    \/ SCheckClosing
    \/ SGo
    \/ Accept
    \/ Complete
    \/ LoopFail
    \/ LoopShutdown
    \/ ProcClosed
    \/ Signal
    \/ SSelectClosed
    \/ SSelectClosing
    \/ SShutdownDone
    \/ SShutdownTimeout
    \/ SWaitClosed
    \/ SReturn
    \/ Warn
    \/ TimeTick

\* the scheduler runs a goroutine that is ready, and time goes on
SpecServe ==
    /\ InitServe
    /\ [][NextServe]_vars
    /\ WF_vars(ServeStep)
    /\ WF_vars(LoopShutdown)
    /\ WF_vars(ProcClosed)
    /\ WF_vars(Warn)
    /\ WF_vars(TimeTick)

(***************************************************************************)
(* Properties of the admission middleware (Spec)                           *)
(***************************************************************************)
\* the path starts with the gated prefix "/ipfs/"
Gated(path) == Len(path) >= 3 /\ path[1] = "" /\ path[2] = "ipfs"

\* the places of trace where op was called
Called(op) == {i \in DOMAIN trace : trace[i].op = op}
PolicyChecks == Called("checkDmca") \cup Called("getDedicatedGatewayAccess")
Rejected == pc = "done" /\ w # NoResponse /\ forwarded = 0

\* C1: fail-closed admission.  A gated request is forwarded only if its
\* moderation check came back with remote status OK and, in dedicated mode,
\* its access check came back OK too; a check that ends in a transport
\* failure, a non-OK remote status or no call at all rejects the request,
\* which is never forwarded.
C1_FailClosedAdmission ==
    /\ (forwarded > 0 /\ Gated(r.Path)) =>
          /\ \E i \in Called("checkDmca") : trace[i].remote = StatusOK
          /\ cfg.DedicatedGateway =>
                \E i \in Called("getDedicatedGatewayAccess") :
                    trace[i].remote = StatusOK
    /\ \A i \in PolicyChecks : trace[i].remote # StatusOK => Rejected

\* a dedicated-mode request rejected because the access call failed in transport
C1_Witness ==
    /\ cfg.DedicatedGateway
    /\ Rejected
    /\ \E i \in Called("getDedicatedGatewayAccess") :
          trace[i].remote = TransportError

\* C2: the access check is called only in dedicated mode and only after
\* the moderation check of the same request has passed; a request whose
\* moderation check fails ends with no access-check call, and open mode
\* never calls the access check.
C2_AccessOnlyAfterModeration ==
    /\ \A i \in Called("getDedicatedGatewayAccess") :
          /\ cfg.DedicatedGateway
          /\ \E j \in Called("checkDmca") : j < i /\ trace[j].ok
          /\ \A j \in Called("checkDmca") : trace[j].ok
    /\ (\E j \in Called("checkDmca") : ~trace[j].ok) =>
          /\ Called("getDedicatedGatewayAccess") = {}
          /\ Rejected
    /\ ~cfg.DedicatedGateway => Called("getDedicatedGatewayAccess") = {}

\* a dedicated-mode request rejected by the moderation check
C2_Witness ==
    /\ cfg.DedicatedGateway
    /\ Rejected
    /\ \E j \in Called("checkDmca") : ~trace[j].ok

IpDenied == \E i \in Called("Allow") : trace[i].pool = "ip" /\ ~trace[i].ok
CidDenied == \E i \in Called("Allow") : trace[i].pool = "cid" /\ ~trace[i].ok
CidCells == {id \in DOMAIN heap : id[1] = "cid"}

\* C3: in open mode a gated request the client-address limiter denies is
\* answered 429 "Too many requests from this IP" and nothing else was done
\* for it: no FindStringSubmatch, no cid.Parse, no getLimiter on the
\* resource pool, no moderation call; the denying step leaves the resource
\* pool as it was.
C3_IpLimitFirst ==
    /\ [](IpDenied =>
            /\ ~cfg.DedicatedGateway
            /\ Gated(r.Path)
            /\ Rejected
            /\ w = [code |-> 429, body |-> "Too many requests from this IP"]
            /\ Len(trace) = 2
            /\ trace[1].op = "getLimiter" /\ trace[1].pool = "ip"
            /\ trace[2].op = "Allow" /\ trace[2].pool = "ip"
            /\ matches = None
            /\ cidv = NoCid)
    /\ [][(pc = "ipAllow" /\ pc' # pc /\ IpDenied') =>
            /\ cidLimiters' = cidLimiters
            /\ \A id \in CidCells : heap'[id] = heap[id]
            /\ allocs' = allocs]_vars

\* the denied request has a malformed path, and the resource pool is in use
C3_Witness ==
    /\ IpDenied
    /\ pc = "done"
    /\ r.Path \in {PathEmptyToken, PathBadHash}
    /\ CidCells # {}

\* C4: in open mode a gated request with a well-formed identifier that the
\* client-address limiter allows and the resource-identifier limiter denies
\* is answered 429 "Too many requests for this CID", is not forwarded and
\* causes no moderation call.
C4_CidLimitRejects ==
    CidDenied =>
        /\ ~cfg.DedicatedGateway
        /\ cidv # NoCid
        /\ \E i \in Called("Allow") : trace[i].pool = "ip" /\ trace[i].ok
        /\ Rejected
        /\ w = [code |-> 429, body |-> "Too many requests for this CID"]
        /\ Called("checkDmca") = {}

C4_Witness == CidDenied /\ pc = "done"

\* C9: the token parsed is the piece of the path right after the leading
\* "/ipfs/"; when that piece is empty the request is answered 400 "Invalid
\* path", when the token is no content identifier it is answered 400
\* "Invalid hash", and neither rejection follows a policy check.
C9_PathParsing ==
    Called("FindStringSubmatch") # {} =>
        /\ r.Path[3] # "" => matches = r.Path[3]
        /\ r.Path[3] = "" =>
              /\ Rejected
              /\ w = [code |-> 400, body |-> "Invalid path"]
              /\ PolicyChecks = {}
        /\ (matches # None /\ Parse(matches) = NoCid) =>
              /\ Rejected
              /\ w = [code |-> 400, body |-> "Invalid hash"]
              /\ PolicyChecks = {}

\* C10: a request whose path does not start with "/ipfs/" is forwarded,
\* in both modes, with nothing called for it: no limiter step, no policy
\* check, no response written; the steps of its run leave the limiter maps
\* and buckets as they were.
C10_NonGatedBypass ==
    /\ []((pc # "idle" /\ ~Gated(r.Path)) =>
            /\ pc \in {"route", "next", "done"}
            /\ trace = <<>>
            /\ lim = NoLimiter
            /\ w = NoResponse
            /\ pc = "done" => forwarded = 1)
    /\ [][(pc # "idle" /\ ~Gated(r.Path) /\ pc' # pc) =>
            UNCHANGED limVars]_vars

\* "/ipfs" without the closing "/" is forwarded in open mode while limiters exist
C10_Witness ==
    /\ pc = "done"
    /\ r.Path = PathIpfsOnly
    /\ forwarded = 1
    /\ ~cfg.DedicatedGateway
    /\ DOMAIN heap # {}

\* C11: a moderation check whose remote call comes back with status 410
\* ends the request: it is answered 410 with the fixed takedown message,
\* which the client receives, nothing more is called for it and it is not
\* forwarded, in dedicated mode and in open mode.
C11_GoneTakedown ==
    \A i \in Called("checkDmca") :
        trace[i].remote = 410 =>
            /\ Rejected
            /\ w = [code |-> 410, body |-> MsgTakedown]
            /\ Delivered = w
            /\ i = Len(trace)
            /\ Called("getDedicatedGatewayAccess") = {}

\* an open-mode request that passed both limiters and was taken down
C11_Witness ==
    /\ ~cfg.DedicatedGateway
    /\ Rejected
    /\ w.code = 410
    /\ \E i \in Called("checkDmca") : trace[i].remote = 410
    /\ \E i \in Called("Allow") : trace[i].pool = "cid" /\ trace[i].ok

\* C12 as stated: a policy check whose outbound call fails in transport
\* returns 500; one whose remote status is not OK (and, for moderation, not
\* Gone) returns exactly the remote status; remote status OK passes; and
\* the status the client of a rejected request receives is the status the
\* check returned.
C12_StatusMapping ==
    \A i \in PolicyChecks :
        /\ trace[i].remote = TransportError =>
              /\ Rejected
              /\ w.code = 500
              /\ Delivered.code = 500
        /\ (/\ trace[i].remote \in RemoteStatuses \ {200}
            /\ ~(trace[i].op = "checkDmca" /\ trace[i].remote = 410)) =>
              /\ Rejected
              /\ w.code = trace[i].remote
              /\ Delivered.code = trace[i].remote
        /\ trace[i].remote = 200 => trace[i].ok

\* C13 as stated: when the remote status is not OK, the denial of the
\* access check carries its generic failure message, and the denial of the
\* moderation check (remote status neither OK nor Gone) carries the message
\* the remote service sent.
C13_DenialMessage ==
    /\ \A i \in Called("getDedicatedGatewayAccess") :
          trace[i].remote \in RemoteStatuses \ {200} =>
              Rejected /\ w.body = MsgAccessDenied
    /\ \A i \in Called("checkDmca") :
          trace[i].remote \in RemoteStatuses \ {200, 410} =>
              Rejected /\ w.body = RemoteBody(trace[i].remote)

\* C14 as stated: a request the middleware has handled was either
\* forwarded to the next handler exactly once with no rejection written, or
\* rejected with one response that carries a status code and a non-empty
\* reason and never forwarded; never both, and never neither.
C14_OneOutcome ==
    /\ forwarded <= 1
    /\ ~(forwarded > 0 /\ w # NoResponse)
    /\ pc = "done" =>
          \/ forwarded = 1 /\ w = NoResponse
          \/ /\ forwarded = 0
             /\ w # NoResponse
             /\ Delivered # NoResponse
             /\ Delivered.code = w.code
             /\ Delivered.body # ""

\* C22: in open mode an Allow call that grants takes one token from its
\* bucket, and no other step of the request's run changes a bucket: not the
\* rejection for an invalid path or an invalid hash, not the denial by the
\* resource limiter, not the moderation denial.  A bucket gains tokens by
\* the passing of refill intervals only.
C22_TokensNotReturned ==
    /\ [][(pc = "ipAllow" /\ pc' = "parse") =>
            heap'[lim].tokens = heap[lim].tokens - 1]_vars
    /\ [][(pc = "cidAllow" /\ pc' = "dmca") =>
            heap'[lim].tokens = heap[lim].tokens - 1]_vars
    /\ [][(pc \in {"ipAllow", "cidAllow"} /\ pc' = "done") =>
            heap' = heap]_vars
    /\ [][(pc' # pc /\ pc \notin {"ipAllow", "cidAllow"}) =>
            \A id \in DOMAIN heap : heap'[id] = heap[id]]_vars
    /\ [][(\E id \in DOMAIN heap : heap'[id].tokens > heap[id].tokens) =>
            heap' = [id \in DOMAIN heap |-> Refill(heap[id])]]_vars

\* an open-mode request passed both limiters and was then denied by the
\* moderation check: the resource bucket is short of its burst
C22_Witness ==
    /\ ~cfg.DedicatedGateway
    /\ Rejected
    /\ \E i \in Called("checkDmca") : ~trace[i].ok
    /\ \E i \in Called("Allow") : trace[i].pool = "ip" /\ trace[i].ok
    /\ \E i \in Called("Allow") : trace[i].pool = "cid" /\ trace[i].ok
    /\ lim[1] = "cid"
    /\ heap[lim].tokens < 15

(***************************************************************************)
(* Properties of the derived strings (SpecKeys)                            *)
(***************************************************************************)
\* two cids name the same content: the same multihash under the same codec
SameContent(c1, c2) ==
    /\ c1 # NoCid
    /\ c2 # NoCid
    /\ c1.hash = c2.hash
    /\ c1.codec = c2.codec

\* C15 as stated: two tokens that denote the same content, whatever the
\* encoding or the cid version they are written in, give the same limiter
\* key and the same argument of the moderation check.
C15_Normalization ==
    \A i, j \in DOMAIN derived :
        SameContent(derived[i].cid, derived[j].cid) =>
            /\ derived[i].limiterKey = derived[j].limiterKey
            /\ derived[i].dmcaArg = derived[j].dmcaArg

\* the requests handled so far, among the first n, that came with the
\* remote address string of request n
SameAddrUpTo(n) == {i \in 1..n : derived[i].addr = derived[n].addr}

\* C23: in open mode the client-address pool is keyed by the remote address
\* string as received, host and source port together and unchanged: two
\* requests get the same limiter, and draw on the same budget, exactly when
\* their remote address strings are identical, so requests of one host that
\* come with different source ports get separate limiters, each with its
\* own budget.
C23_KeyedByRemoteAddr ==
    ~cfg.DedicatedGateway =>
        /\ \A i \in DOMAIN derived :
              /\ derived[i].ipKey = derived[i].addr
              /\ derived[i].ipLimiter # NoLimiter
              /\ derived[i].addr \in DOMAIN ipLimiters
              /\ ipLimiters[derived[i].addr] = derived[i].ipLimiter
              /\ derived[i].ipTokens = IpBurst - Cardinality(SameAddrUpTo(i))
        /\ \A i, j \in DOMAIN derived :
              /\ (derived[i].ipLimiter = derived[j].ipLimiter)
                     <=> (derived[i].addr = derived[j].addr)
              /\ (Host(derived[i].addr) = Host(derived[j].addr)
                     /\ derived[i].addr # derived[j].addr)
                    => derived[i].ipLimiter # derived[j].ipLimiter

\* two open-mode requests of one host with different source ports have been
\* handled, and each got the first token of a limiter of its own
C23_Witness ==
    /\ ~cfg.DedicatedGateway
    /\ Len(derived) >= 2
    /\ Host(derived[1].addr) = Host(derived[2].addr)
    /\ derived[1].addr # derived[2].addr
    /\ derived[1].ipLimiter # derived[2].ipLimiter
    /\ derived[1].ipTokens = IpBurst - 1
    /\ derived[2].ipTokens = IpBurst - 1

(***************************************************************************)
(* Properties of the limiter registry (SpecLimiter)                        *)
(***************************************************************************)
Min(a, b) == IF a <= b THEN a ELSE b

\* C5: for a key of a pool, counted from the creation of its limiter and
\* while no refill interval has passed, the Allow calls granted are exactly
\* the first B: 100 in the client-address pool, 15 in the resource pool,
\* whatever the interleaving of the callers.  (calls stops counting at B + 1.)
C5_BurstExactlyB ==
    \A pk \in PoolKeys :
        pk \notin refilled =>
            fresh[pk].grants =
                Min(fresh[pk].calls, IF pk[1] = "ip" THEN 100 ELSE 15)

\* more than 100 calls were made on a client address, no refill since, and
\* another goroutine is about to call Allow on the same limiter
C5_Witness ==
    \E pk \in PoolKeys :
        /\ pk[1] = "ip"
        /\ pk \notin refilled
        /\ fresh[pk].calls = 101
        /\ fresh[pk].grants = 100
        /\ \E c \in Callers : g[c].pc = "allow" /\ g[c].limit = pk[2]

\* C6: a pool holds at most one limiter per key: one NewLimiter call per
\* key, the map entry of a key is the cell created for that key, every
\* getLimiter call returns the map's cell, an entry is never removed or
\* replaced, and an Allow call on one key leaves the buckets of the other
\* keys as they were.
C6_OneLimiterPerKey ==
    /\ [](/\ \A pk \in PoolKeys : allocs[pk] <= 1
          /\ \A pk \in PoolKeys :
                pk[2] \in DOMAIN PoolMap(pk[1]) =>
                    /\ PoolMap(pk[1])[pk[2]] = <<pk[1], pk[2], 0>>
                    /\ PoolMap(pk[1])[pk[2]] \in DOMAIN heap
          /\ \A pk \in PoolKeys :
                (allocs[pk] > 0) = (pk[2] \in DOMAIN PoolMap(pk[1]))
          /\ \A c \in Callers :
                g[c].pc = "allow" =>
                    /\ g[c].limit \in DOMAIN PoolMap(lpool)
                    /\ g[c].limiter = PoolMap(lpool)[g[c].limit])
    /\ [][/\ \A k \in DOMAIN ipLimiters :
                k \in DOMAIN ipLimiters' /\ ipLimiters'[k] = ipLimiters[k]
          /\ \A k \in DOMAIN cidLimiters :
                k \in DOMAIN cidLimiters' /\ cidLimiters'[k] = cidLimiters[k]
          /\ \A c \in Callers :
                (g[c].pc = "allow" /\ g'[c].pc = "idle") =>
                    \A id \in DOMAIN heap :
                        id[2] # g[c].limit => heap'[id] = heap[id]]_vars

\* with no refill, one resource key is exhausted and the other is untouched
C6_Witness ==
    /\ refilled = {}
    /\ DOMAIN cidLimiters = {"QmA", "bafyA"}
    /\ heap[cidLimiters["QmA"]].tokens = 0
    /\ heap[cidLimiters["bafyA"]].tokens = 15
    /\ fresh[<<"cid", "QmA">>].calls = 16

\* C21 as stated: a goroutine that waits at the entry of getLimiter waits
\* only for a goroutine working on the same key, never for one working on
\* another key; and no two goroutines are inside getLimiter for the same
\* key at once.
C21_NoContention ==
    /\ \A c, d \in Callers :
          (c # d /\ g[c].pc = "lock" /\ d \in mtx) => g[d].limit = g[c].limit
    /\ \A c, d \in mtx : c # d => g[c].limit # g[d].limit

(***************************************************************************)
(* Properties of Serve (SpecServe)                                         *)
(***************************************************************************)
\* Serve has returned after the signal reached it while it was serving
ReturnedAfterSignal == sigServing /\ spc = "returned"

\* C7 as stated: once the signal has arrived while the server is serving,
\* Serve returns within 30 time-units; it returns no error when no request
\* is left in flight and a timeout error when the 30 time-units ran out,
\* and it returns nothing else.
C7_Original ==
    /\ (sigServing /\ spc # "returned") => sinceSignal <= shutdownTimeout
    /\ ReturnedAfterSignal =>
          /\ retErr \in {None, DeadlineExceeded}
          /\ retErr = None => inflight = 0
          /\ retErr = DeadlineExceeded => sinceSignal = shutdownTimeout
          /\ sinceSignal < shutdownTimeout => retErr = None

\* C7, amended: once the signal has arrived while the server is serving,
\* Serve returns, and no later than 30 time-units after the signal; when
\* Serve went into the orderly shutdown it returns no error if no request
\* was left in flight within the 30 time-units and the timeout error at 30
\* time-units otherwise; when the serve loop exited by itself before Serve
\* acted on the signal, Serve may instead return the loop's own error.
C7_ShutdownBounded ==
    /\ []((sigServing /\ spc # "returned") => sinceSignal <= shutdownTimeout)
    /\ [](ReturnedAfterSignal =>
            IF shutdownBegun
            THEN /\ retErr \in {None, DeadlineExceeded}
                 /\ retErr = None => inflight = 0
                 /\ retErr = DeadlineExceeded => sinceSignal = shutdownTimeout
                 /\ sinceSignal < shutdownTimeout => retErr = None
            ELSE loopOwn /\ retErr = ErrAccept)
    /\ (sigServing ~> spc = "returned")

\* a request was still in flight when the 30 time-units ran out: Serve
\* returned the timeout error 30 time-units after the signal, having logged
\* the notifications
C7_Witness ==
    /\ ReturnedAfterSignal
    /\ shutdownBegun
    /\ retErr = DeadlineExceeded
    /\ sinceSignal = shutdownTimeout
    /\ inflight > 0
    /\ notices > 0

\* C8 as stated: the error Serve returns after the server has started is
\* the serve loop's own error when the loop exited by itself, and the error
\* of server.Shutdown otherwise, whichever way the steps interleave.
C8_ReturnedError ==
    (spc = "returned" /\ loop # "none") =>
        retErr = IF loopOwn THEN ErrAccept ELSE shutErr

(***************************************************************************)
(* Properties of MakeHandler and of the lifecycle (SpecServe)              *)
(***************************************************************************)
\* the places of the option list where the option fails
Failing == {i \in DOMAIN options : options[i] = "fail"}
FirstFailing == CHOOSE i \in Failing : \A j \in Failing : i <= j

\* C16: when an option of the list fails, MakeHandler has invoked the
\* options up to that one and none after it and returns no handler, and
\* Serve returns that option's error with the listener closed, the serve
\* loop never started and no connection accepted.
C16_CompositionFailure ==
    (spc # "makeHandler" /\ Failing # {}) =>
        /\ Len(handler.calls) = FirstFailing
        /\ handler.calls[FirstFailing].err = OptionError(FirstFailing)
        /\ handler.top = -1
        /\ handler.err = OptionError(FirstFailing)
        /\ spc = "returned"
        /\ retErr = OptionError(FirstFailing)
        /\ ~lisOpen
        /\ loop = "none"
        /\ inflight = 0
        /\ last = NoDispatch

\* the first of two options failed: Serve has returned its error
C16_Witness ==
    /\ options = <<"fail", "wrap">>
    /\ spc = "returned"
    /\ retErr = OptionError(1)
    /\ Len(handler.calls) = 1

\* C17: MakeHandler calls the options in the order of the list, the i-th
\* call being the i-th option; the first is given topMux, a mux made by
\* MakeHandler that no option made, and each later one is given the mux
\* the option before it returned.
C17_OptionsInOrder ==
    spc # "makeHandler" =>
        LET c == handler.calls
        IN  /\ Len(c) = IF Failing = {} THEN Len(options) ELSE FirstFailing
            /\ \A i \in DOMAIN c :
                  /\ c[i].given = IF i = 1 THEN TopMux ELSE c[i - 1].returned
                  /\ options[i] = "same" => c[i].returned = c[i].given
                  /\ options[i] = "wrap" => c[i].returned = i
                  /\ options[i] = "fail" => c[i].err = OptionError(i)
                  /\ options[i] # "fail" => c[i].err = None
            /\ \A i \in DOMAIN c : options[i] = "wrap" => c[i].returned # TopMux

\* the first option interposed a mux of its own and the second was given it
C17_Witness ==
    /\ options = <<"wrap", "same">>
    /\ spc # "makeHandler"
    /\ handler.calls[2].given = 1
    /\ handler.calls[2].given # TopMux

\* C18: a CONNECT request that reaches the handler of MakeHandler is
\* answered with status 200 by the handler itself and dispatched to no mux;
\* a request with another verb is dispatched to topMux, also when the
\* options returned other muxes, and the handler writes no status itself.
C18_ConnectIntercepted ==
    last.admitted =>
        IF last.method = "CONNECT"
        THEN last.code = 200 /\ last.mux = -1
        ELSE last.code = 0 /\ last.mux = TopMux

\* a GET went to topMux although the last option had returned its own mux
C18_Witness ==
    /\ last.admitted
    /\ last.method = "GET"
    /\ last.mux = TopMux
    /\ handler.mux # TopMux
    /\ handler.mux # -1

\* Serve is in the orderly shutdown: from the node-closing case of the
\* select until warnProc is closed
Draining == spc \in {"shutdown", "waitClosed"}

\* C19: while Serve is draining one progress notification has been logged
\* for every 5 time-units of draining passed (the one due at this instant
\* may still be on its way); none is logged before the shutdown signal,
\* none when the serve loop exits by itself and Serve returns without an
\* orderly shutdown, and none once Serve is past draining or has returned.
C19_ProgressNotices ==
    /\ [](~closing => notices = 0)
    /\ [](~shutdownBegun => notices = 0)
    /\ [](Draining =>
            \/ notices = ctxAge \div 5
            \/ warnAge = 5 /\ notices + 1 = ctxAge \div 5)
    /\ [][~Draining => notices' = notices]_vars

\* 25 time-units into draining with a request in flight: 5 notifications
C19_Witness ==
    /\ spc = "shutdown"
    /\ inflight > 0
    /\ ctxAge = 25
    /\ notices = 5

\* the lifecycle state, read off the position of Serve: starting until the
\* serve loop is handed to serverProc, serving while Serve waits in the
\* select, draining in the orderly shutdown, closed from then on
Phase ==
    CASE spc \in {"makeHandler", "config", "addr", "check", "go"} -> "starting"
      [] spc = "select" -> "serving"
      [] spc \in {"shutdown", "waitClosed"} -> "draining"
      [] OTHER -> "closed"

\* the errors Serve returns before the serve loop is started
StartupErrors ==
    {OptionError(i) : i \in 1..MaxOptions} \cup {ErrConfig, ErrAddr, ErrClosing}

\* the orderly shutdown call is made in draining only
ShutdownInDraining ==
    (shutdownBegun' /\ ~shutdownBegun) => (Phase = "serving" /\ Phase' = "draining")

\* C20 as stated: the lifecycle state changes only from starting to
\* serving, from serving to draining on the shutdown signal, from draining
\* to closed, and from serving to closed when the serve loop has exited by
\* itself; server.Shutdown is called in draining only; closed is left
\* never, and is never entered from starting.
C20_Original ==
    [][/\ Phase' # Phase =>
            \/ Phase = "starting" /\ Phase' = "serving"
            \/ Phase = "serving" /\ Phase' = "draining" /\ closing
            \/ Phase = "draining" /\ Phase' = "closed"
            \/ Phase = "serving" /\ Phase' = "closed" /\ procClosed /\ loopOwn
       /\ ShutdownInDraining]_vars

\* C20, amended: the lifecycle state changes only from starting to
\* serving, when the serve loop is started; from starting to closed, when
\* the start fails and Serve returns a startup error with the serve loop
\* never started; from serving to draining on the shutdown signal; from
\* draining to closed; and from serving to closed when the serve loop has
\* exited by itself.  server.Shutdown is called in draining only and
\* closed is never left.
C20_Lifecycle ==
    /\ [][/\ Phase' # Phase =>
              \/ Phase = "starting" /\ Phase' = "serving" /\ loop' = "running"
              \/ /\ Phase = "starting" /\ Phase' = "closed"
                 /\ spc' = "returned"
                 /\ retErr' \in StartupErrors
                 /\ loop' = "none"
                 /\ ~lisOpen'
              \/ Phase = "serving" /\ Phase' = "draining" /\ closing
              \/ Phase = "draining" /\ Phase' = "closed"
              \/ Phase = "serving" /\ Phase' = "closed" /\ procClosed /\ loopOwn
         /\ ShutdownInDraining]_vars
    /\ [](shutdownBegun => Phase \in {"draining", "closed"})
    /\ [](Phase \in {"serving", "draining"} => loop # "none")

\* the node was closing already when Serve came to start the server
C20_Witness ==
    /\ spc = "returned"
    /\ loop = "none"
    /\ retErr = ErrClosing
    /\ closing
    /\ ~lisOpen

====
